---- MODULE Spec2Model ----
(***************************************************************************)
(* A model of src/app.py: the Instagram profile scraper backend.           *)
(*                                                                         *)
(* State: the global in-memory cache (app.py:71-76), the JSON snapshot     *)
(* file on disk (CACHE_FILE), the wall clock, the position of the main     *)
(* program (app.py:345-370) and, per request-handling thread, the locals   *)
(* of update_cache_data (app.py:178-218).                                  *)
(*                                                                         *)
(* The external profile source (instaloader) is an opaque collaborator:    *)
(* every call answers with a profile, ProfileNotExistsException,           *)
(* ConnectionException or some other exception, chosen freely.             *)
(*                                                                         *)
(* app.run(host, port, debug=False) (app.py:370) starts Flask's            *)
(* development server, which since Flask 1.0 handles every request in a    *)
(* thread of its own (threaded=True is the default of Flask.run).  The     *)
(* specification SpecThreaded lets requests overlap; Spec serves one       *)
(* request at a time over the whole life of the process (restarts, the     *)
(* clock, failing saves); SpecStartup follows one start of the program     *)
(* with every answer the source can give; SpecRun is the refresh job by    *)
(* itself, under weak fairness of its steps.  The cache is a plain dict    *)
(* with no lock: each subscript load or store of it is one step.           *)
(*                                                                         *)
(* Time is counted in minutes.  Of a profile record only the fields the    *)
(* endpoints compute with are kept: username, followers, isVerified.       *)
(***************************************************************************)
EXTENDS Integers, Sequences, FiniteSets, TLC

\* ------------------------------------------------------------- bounds ----
NumUsers == 2          \* how many entries of the username list are tracked
MaxFollowers == 1      \* follower counts the source reports: 0..MaxFollowers
MaxFetchCount == 2     \* no refresh request is accepted once fetch_count reaches it
MaxTime == 31          \* the clock stops here
MaxArgLen == 1         \* longest min_followers query string

\* ------------------------------------------------- program constants ----
CACHE_DURATION_MINUTES == 30
MAX_RETRIES == 3
RETRY_DELAY == 5
RATE_LIMIT_SLEEP == 2  \* time.sleep(2) in the rate_limit wrapper, seconds

AllUsernames ==
  << "instagram", "cristiano", "leomessi", "selenagomez", "therock",
     "kyliejenner", "arianagrande", "kimkardashian", "beyonce", "justinbieber",
     "nike", "natgeo", "nasa", "redbull", "spotify",
     "tarakeshwar_bikumandla", "anshsaxenna" >>

USERNAMES == SubSeq(AllUsernames, 1, NumUsers)

\* Python's None, and an Optional value as a sequence of length 0 or 1.
None == << >>
Some(x) == << x >>

\* The two request-handling threads of the development server.
Threads == {1, 2}

Followers == 0..MaxFollowers

\* What one call of instaloader.Profile.from_username (and the attribute reads
\* that follow it) can do.
OkOutcomes == [kind : {"ok"}, followers : Followers, isVerified : BOOLEAN]
ErrOutcomes == [kind : {"not_found", "connection", "other"}, followers : {0}, isVerified : {FALSE}]
SourceOutcomes == OkOutcomes \cup ErrOutcomes

\* The outcomes explored where runs follow or overlap one another: a profile
\* is there or is not.
CoarseOutcomes ==
  {o \in SourceOutcomes : o.kind \in {"ok", "not_found"} /\ o.followers = 0 /\ ~o.isVerified}

\* datetime.isoformat() and datetime.fromisoformat(): a timestamp string.
IsoFormat(t) == << "T", t >>
FromIsoFormat(s) == s[2]

InitialCache == [profiles |-> << >>, last_update |-> None, fetch_count |-> 0, errors |-> << >>]

VARIABLES
  cache,     \* the global cache dict
  disk,      \* the snapshot file: [state, data]
  now,       \* the wall clock, minutes
  pc,        \* main program: "boot", "startup" (first run), "serving"
  run,       \* per thread: the locals of update_cache_data
  resp,      \* the HTTP response returned by the step just taken
  owner,     \* history: which run wrote each cache field (0: none, or loaded)
  nruns,     \* history: update_cache_data invocations since the process started
  nposts,    \* history: POST /api/refresh requests accepted since the process started
  startup    \* history: what load_cache gave at startup: "none", "hit", "miss"

vars == << cache, disk, now, pc, run, resp, owner, nruns, nposts, startup >>

\* The locals of one update_cache_data call.  phase names the next step; calls,
\* last and ret are history: the source calls made for the username attempted
\* last, the outcome of the last call, and the pair fetch_profile_data returned
\* last; stamp is the timestamp this run stored, saved the fate of its save;
\* slept is the seconds its fetch loop has spent in time.sleep.
IdleRun == [phase |-> "idle", idx |-> 1, retry_count |-> 0, profiles |-> << >>,
            slept |-> 0,
            errors |-> << >>, count |-> 0, id |-> 0, calls |-> 0, last |-> "none",
            ret |-> [done |-> FALSE, data |-> None, error |-> None],
            stamp |-> None, saved |-> "pending"]

\* No query parameter of that name in the request.
NoArg == [given |-> FALSE, text |-> << >>]

\* An HTTP response: the status code and the fields of the JSON body the
\* endpoints set (success is "absent" where the body has no such key); verified
\* and min_followers are the query parameters of the request it answers; obs is
\* history: the owner of each cache field when the handler read the cache.
NoResp == [endpoint |-> "none", http |-> 0, success |-> "absent", data |-> << >>,
           verified |-> "", min_followers |-> NoArg,
           last_update |-> None, total |-> 0, errors |-> << >>, age |-> None,
           failed |-> 0, requested |-> 0, fetches |-> 0, sum |-> 0, avg |-> 0,
           obs |-> [profiles |-> 0, last_update |-> 0, fetch_count |-> 0, errors |-> 0]]

NoOwner == [profiles |-> 0, last_update |-> 0, fetch_count |-> 0, errors |-> 0]

Init ==
  /\ cache = InitialCache
  /\ disk = [state |-> "absent", data |-> InitialCache]
  /\ now = 0
  /\ pc = "boot"
  /\ run = [t \in Threads |-> IdleRun]
  /\ resp = NoResp
  /\ owner = NoOwner
  /\ nruns = 0
  /\ nposts = 0
  /\ startup = "none"

\* ------------------------------------------------------- cache store ----

\* Mutant of load_cache: the expiry test is left out.
load_cache_no_expiry(file, t) ==
  IF file.state # "complete" THEN None
  ELSE IF file.data.last_update # None THEN Some(file.data) ELSE None

\* load_cache(): the snapshot, or None.  A file that is absent gives None; a
\* file that does not parse raises inside the try and gives None.
load_cache(file, t) ==
  IF file.state = "absent" THEN None
  ELSE IF file.state = "truncated" THEN None
  ELSE LET data == file.data IN
       IF data.last_update # None
       THEN IF t - FromIsoFormat(data.last_update) < CACHE_DURATION_MINUTES
            THEN Some(data)
            ELSE None
       ELSE None

\* dict.update: every key of data replaces the cache's.
cache_update(c, data) ==
  [k \in DOMAIN c |-> IF k \in DOMAIN data THEN data[k] ELSE c[k]]

\* open(CACHE_FILE, 'w') truncates the file before anything is written.
open_for_write(file) == [state |-> "truncated", data |-> InitialCache]

\* Mutant of json_dump: the counter and the errors are not written.
json_dump_partly(data) ==
  [state |-> "complete",
   data |-> [data EXCEPT !.fetch_count = InitialCache.fetch_count,
                         !.errors = InitialCache.errors]]

\* json.dump(data, f) run to its end.
json_dump(data) == [state |-> "complete", data |-> data]

\* ---------------------------------------------------- fetch with retry ----

ProfileData(username, o) ==
  [username |-> username, followers |-> o.followers, isVerified |-> o.isVerified]

ErrorMessage(username, kind) ==
  CASE kind = "not_found"  -> << "Profile does not exist", username >>
    [] kind = "connection" -> << "Connection error for", username >>
    [] OTHER               -> << "Error fetching", username >>

\* Mutant of should_retry: one retry too many.
should_retry_once_more(retry_count) == retry_count < MAX_RETRIES

\* The retry test of the ConnectionException handler.
should_retry(retry_count) == retry_count < MAX_RETRIES - 1

\* Mutant of fetch_profile_data: once the retries are used up it returns
\* neither a record nor an error.
fetch_profile_data_neither(username, retry_count, o) ==
  CASE o.kind = "ok" ->
         [done |-> TRUE, data |-> Some(ProfileData(username, o)), error |-> None]
    [] o.kind = "connection" ->
         IF should_retry(retry_count)
         THEN [done |-> FALSE, data |-> None, error |-> None]
         ELSE [done |-> TRUE, data |-> None, error |-> None]
    [] OTHER ->
         [done |-> TRUE, data |-> None, error |-> Some(ErrorMessage(username, o.kind))]

\* Mutant of fetch_profile_data: every exception but not-found is retried.
fetch_profile_data_retry_any(username, retry_count, o) ==
  CASE o.kind = "ok" ->
         [done |-> TRUE, data |-> Some(ProfileData(username, o)), error |-> None]
    [] o.kind = "not_found" ->
         [done |-> TRUE, data |-> None, error |-> Some(ErrorMessage(username, "not_found"))]
    [] OTHER ->
         IF should_retry(retry_count)
         THEN [done |-> FALSE, data |-> None, error |-> None]
         ELSE [done |-> TRUE, data |-> None, error |-> Some(ErrorMessage(username, o.kind))]

\* One activation of fetch_profile_data(username, retry_count) whose call of
\* the source has outcome o: either it returns the pair (data, error), or it
\* calls itself again with retry_count + 1 (done = FALSE).
fetch_profile_data(username, retry_count, o) ==
  CASE o.kind = "ok" ->
         [done |-> TRUE, data |-> Some(ProfileData(username, o)), error |-> None]
    [] o.kind = "not_found" ->
         [done |-> TRUE, data |-> None, error |-> Some(ErrorMessage(username, "not_found"))]
    [] o.kind = "connection" ->
         IF should_retry(retry_count)
         THEN [done |-> FALSE, data |-> None, error |-> None]
         ELSE [done |-> TRUE, data |-> None, error |-> Some(ErrorMessage(username, "connection"))]
    [] OTHER ->
         [done |-> TRUE, data |-> None, error |-> Some(ErrorMessage(username, "other"))]

\* profiles.sort(key=lambda x: x['followers'], reverse=True): Python's sort is
\* stable, also with reverse=True.
\* Mutant of insert_desc: an unstable sort, equal keys end up reversed.
RECURSIVE insert_desc_unstable(_, _)
insert_desc_unstable(sorted, p) ==
  IF sorted = << >> THEN << p >>
  ELSE IF Head(sorted).followers > p.followers
       THEN << Head(sorted) >> \o insert_desc_unstable(Tail(sorted), p)
       ELSE << p >> \o sorted

RECURSIVE insert_desc(_, _)
insert_desc(sorted, p) ==
  IF sorted = << >> THEN << p >>
  ELSE IF Head(sorted).followers >= p.followers
       THEN << Head(sorted) >> \o insert_desc(Tail(sorted), p)
       ELSE << p >> \o sorted

RECURSIVE sort_profiles(_)
sort_profiles(s) ==
  IF s = << >> THEN << >>
  ELSE insert_desc(sort_profiles(SubSeq(s, 1, Len(s) - 1)), s[Len(s)])

\* The loop body of update_cache_data after fetch_profile_data returned r:
\* a truthy profile_data is appended to profiles, else a truthy error to errors.
collect(r, username, profiles, errors) ==
  IF r.data # None
  THEN [profiles |-> Append(profiles, r.data[1]), errors |-> errors]
  ELSE IF r.error # None
       THEN [profiles |-> profiles,
             errors |-> Append(errors, [username |-> username, error |-> r.error[1]])]
       ELSE [profiles |-> profiles, errors |-> errors]

\* Mutant of sleep_seconds: the backoff is slept before every attempt.
sleep_seconds_backoff_always(f) == RATE_LIMIT_SLEEP + RETRY_DELAY

\* The seconds one activation of fetch_profile_data sleeps: the rate_limit
\* wrapper before the call, and the backoff when it goes on to retry (the
\* retry calls the wrapped function, so it sleeps in the wrapper again).
sleep_seconds(f) == RATE_LIMIT_SLEEP + (IF f.done THEN 0 ELSE RETRY_DELAY)

\* -------------------------------------------------------- refresh job ----

Idle == \A t \in Threads : run[t].phase = "idle"

\* update_cache_data() is entered on thread t: profiles = [], errors = [].
StartRun(t) ==
  /\ run' = [run EXCEPT ![t] = [IdleRun EXCEPT !.phase = "fetch", !.id = nruns + 1]]
  /\ nruns' = nruns + 1

\* Mutant of FetchStep: a username that failed ends the loop.
FetchStep_break(t, o) ==
  /\ run[t].phase = "fetch"
  /\ LET r == run[t]
         username == USERNAMES[r.idx]
         f == fetch_profile_data(username, r.retry_count, o)
         c == collect(f, username, r.profiles, r.errors)
         calls == IF r.retry_count = 0 THEN 1 ELSE r.calls + 1
     IN  run' = [run EXCEPT ![t] =
           IF f.done
           THEN [r EXCEPT !.profiles = c.profiles, !.errors = c.errors,
                          !.idx = r.idx + 1, !.retry_count = 0,
                          !.calls = calls, !.last = o.kind, !.ret = f,
                          !.slept = r.slept + sleep_seconds(f),
                          !.phase = IF r.idx + 1 > Len(USERNAMES) \/ f.error # None
                                    THEN "store_profiles" ELSE "fetch"]
           ELSE [r EXCEPT !.retry_count = r.retry_count + 1,
                          !.calls = calls, !.last = o.kind, !.ret = f,
                          !.slept = r.slept + sleep_seconds(f)]]
  /\ resp' = NoResp
  /\ UNCHANGED << cache, disk, now, pc, owner, nruns, nposts, startup >>

\* One call of the source for USERNAMES[idx], with outcome o: one activation
\* of fetch_profile_data.  When it returns, the loop body collects the result
\* and moves to the next username; after the last one the loop ends.
FetchStep(t, o) ==
  /\ run[t].phase = "fetch"
  /\ LET r == run[t]
         username == USERNAMES[r.idx]
         f == fetch_profile_data(username, r.retry_count, o)
         c == collect(f, username, r.profiles, r.errors)
         calls == IF r.retry_count = 0 THEN 1 ELSE r.calls + 1
     IN  run' = [run EXCEPT ![t] =
           IF f.done
           THEN [r EXCEPT !.profiles = c.profiles, !.errors = c.errors,
                          !.idx = r.idx + 1, !.retry_count = 0,
                          !.calls = calls, !.last = o.kind, !.ret = f,
                          !.slept = r.slept + sleep_seconds(f),
                          !.phase = IF r.idx + 1 > Len(USERNAMES)
                                    THEN "store_profiles" ELSE "fetch"]
           ELSE [r EXCEPT !.retry_count = r.retry_count + 1,
                          !.calls = calls, !.last = o.kind, !.ret = f,
                          !.slept = r.slept + sleep_seconds(f)]]
  /\ resp' = NoResp
  /\ UNCHANGED << cache, disk, now, pc, owner, nruns, nposts, startup >>

\* Lines 199-204 of update_cache_data, each statement as a function of
\* m = [c: the cache, r: this run's locals, own: the owner of each cache field].

\* profiles.sort(...); cache['profiles'] = profiles
store_profiles(m) ==
  LET sorted == sort_profiles(m.r.profiles) IN
  [c |-> [m.c EXCEPT !.profiles = sorted],
   r |-> [m.r EXCEPT !.profiles = sorted, !.phase = "store_last_update",
                     !.calls = 0, !.last = "none", !.ret = IdleRun.ret, !.slept = 0],
   own |-> [m.own EXCEPT !.profiles = m.r.id]]

\* Mutant of store_last_update: the timestamp is not stored.
store_last_update_skipped(m, t) ==
  [m EXCEPT !.r = [m.r EXCEPT !.phase = "load_count"]]

\* cache['last_update'] = datetime.now().isoformat()
store_last_update(m, t) ==
  [c |-> [m.c EXCEPT !.last_update = IsoFormat(t)],
   r |-> [m.r EXCEPT !.stamp = IsoFormat(t), !.phase = "load_count"],
   own |-> [m.own EXCEPT !.last_update = m.r.id]]

\* cache['fetch_count'] += 1, the load of the old value
load_count(m) ==
  [m EXCEPT !.r = [m.r EXCEPT !.count = m.c.fetch_count, !.phase = "store_count"]]

\* cache['fetch_count'] += 1, the store of the new value
store_count(m) ==
  [c |-> [m.c EXCEPT !.fetch_count = m.r.count + 1],
   r |-> [m.r EXCEPT !.phase = "store_errors"],
   own |-> [m.own EXCEPT !.fetch_count = m.r.id]]

\* cache['errors'] = errors
store_errors(m) ==
  [c |-> [m.c EXCEPT !.errors = m.r.errors],
   r |-> [m.r EXCEPT !.phase = "open"],
   own |-> [m.own EXCEPT !.errors = m.r.id]]

Memory(t) == [c |-> cache, r |-> run[t], own |-> owner]

\* Thread t takes the cache from its state in m to that in m2.
Store(t, m2) ==
  /\ cache' = m2.c
  /\ run' = [run EXCEPT ![t] = m2.r]
  /\ owner' = m2.own
  /\ resp' = NoResp
  /\ UNCHANGED << disk, now, pc, nruns, nposts, startup >>

StoreProfiles(t) ==
  run[t].phase = "store_profiles" /\ Store(t, store_profiles(Memory(t)))

StoreLastUpdate(t) ==
  run[t].phase = "store_last_update" /\ Store(t, store_last_update(Memory(t), now))

LoadCount(t) ==
  run[t].phase = "load_count" /\ Store(t, load_count(Memory(t)))

StoreCount(t) ==
  run[t].phase = "store_count" /\ Store(t, store_count(Memory(t)))

StoreErrors(t) ==
  run[t].phase = "store_errors" /\ Store(t, store_errors(Memory(t)))

\* Lines 199-204 in one step: what they do when no other thread runs between them.
UpdateCache(t) ==
  /\ run[t].phase = "store_profiles"
  /\ Store(t, store_errors(store_count(load_count(
                 store_last_update(store_profiles(Memory(t)), now)))))

\* save_cache(cache): open(CACHE_FILE, 'w').  It either truncates the file, or
\* raises; the exception is logged and save_cache returns.
SaveOpen(t) ==
  /\ run[t].phase = "open"
  /\ \/ /\ disk' = open_for_write(disk)
        /\ run' = [run EXCEPT ![t] = [@ EXCEPT !.phase = "dump"]]
     \/ /\ disk' = disk
        /\ run' = [run EXCEPT ![t] = [@ EXCEPT !.phase = "return", !.saved = "failed"]]
  /\ resp' = NoResp
  /\ UNCHANGED << cache, now, pc, owner, nruns, nposts, startup >>

\* save_cache(cache): json.dump(data, f, indent=2).  It either writes the whole
\* document, or raises part-way; the exception is logged and save_cache returns.
SaveDump(t) ==
  /\ run[t].phase = "dump"
  /\ \/ /\ disk' = json_dump(cache)
        /\ run' = [run EXCEPT ![t] = [@ EXCEPT !.phase = "return", !.saved = "ok"]]
     \/ /\ disk' = disk
        /\ run' = [run EXCEPT ![t] = [@ EXCEPT !.phase = "return", !.saved = "failed"]]
  /\ resp' = NoResp
  /\ UNCHANGED << cache, now, pc, owner, nruns, nposts, startup >>

\* ----------------------------------------------------------- HTTP API ----

\* get_cache_age_minutes()
get_cache_age_minutes(c, t) ==
  IF c.last_update = None THEN None ELSE Some(t - FromIsoFormat(c.last_update))

\* GET /
index(c, t, own) ==
  [NoResp EXCEPT !.endpoint = "/", !.http = 200, !.total = Len(c.profiles),
                 !.last_update = c.last_update, !.fetches = c.fetch_count, !.obs = own]

\* GET /api/health
health_check(c, t, own) ==
  [NoResp EXCEPT !.endpoint = "/api/health", !.http = 200, !.total = Len(c.profiles),
                 !.last_update = c.last_update, !.age = get_cache_age_minutes(c, t),
                 !.failed = Len(c.errors), !.obs = own]

\* Query-string characters, and the strings a client can send.
Digits == {"0", "1"}
Chars == Digits \cup {"x"}
Strings(n) == UNION {[1..k -> Chars] : k \in 0..n}

\* request.args.get('min_followers', 0): absent, or the text sent.
MinFollowersArgs ==
  {NoArg} \cup {[given |-> TRUE, text |-> s] : s \in Strings(MaxArgLen)}

\* request.args.get('verified', ''): "" when absent.
VerifiedArgs == {"", "true", "True", "false"}

\* The query parameters explored where runs follow one another: no filter,
\* or the least of each.
CoarseVerifiedArgs == {"", "true"}
CoarseMinFollowersArgs == {NoArg, [given |-> TRUE, text |-> << "1" >>]}

\* str.lower()
lower(s) == IF s = "True" THEN "true" ELSE s

DigitValue(ch) == IF ch = "0" THEN 0 ELSE 1

RECURSIVE DecimalValue(_)
DecimalValue(text) ==
  IF text = << >> THEN 0
  ELSE DecimalValue(SubSeq(text, 1, Len(text) - 1)) * 10 + DigitValue(text[Len(text)])

\* int(x): the default 0 as it is, a digit string as its value; any other
\* string raises ValueError (None here).
py_int(arg) ==
  IF ~arg.given THEN Some(0)
  ELSE IF arg.text = << >> \/ \E i \in 1..Len(arg.text) : arg.text[i] \notin Digits
       THEN None
       ELSE Some(DecimalValue(arg.text))

\* Mutant of filter_profiles: a record with exactly min_followers followers is
\* left out.
filter_profiles_above(profiles, verified_only, min_followers) ==
  LET IsVerified(p) == p.isVerified
      HasFollowers(p) == p.followers > min_followers
      p1 == IF verified_only THEN SelectSeq(profiles, IsVerified) ELSE profiles
  IN  IF min_followers > 0 THEN SelectSeq(p1, HasFollowers) ELSE p1

\* The two list comprehensions of get_profiles.
filter_profiles(profiles, verified_only, min_followers) ==
  LET IsVerified(p) == p.isVerified
      HasFollowers(p) == p.followers >= min_followers
      p1 == IF verified_only THEN SelectSeq(profiles, IsVerified) ELSE profiles
  IN  IF min_followers > 0 THEN SelectSeq(p1, HasFollowers) ELSE p1

\* GET /api/profiles?verified=v&min_followers=m.  An exception that leaves
\* the view function makes Flask answer 500.
get_profiles(c, t, own, v, m) ==
  LET verified_only == lower(v) = "true"
      min_followers == py_int(m)
  IN  IF min_followers = None
      THEN [NoResp EXCEPT !.endpoint = "/api/profiles", !.http = 500,
                          !.verified = v, !.min_followers = m]
      ELSE LET profiles == filter_profiles(c.profiles, verified_only, min_followers[1])
           IN  [NoResp EXCEPT !.endpoint = "/api/profiles", !.http = 200, !.success = "true",
                              !.verified = v, !.min_followers = m,
                              !.data = profiles, !.last_update = c.last_update,
                              !.total = Len(profiles), !.age = get_cache_age_minutes(c, t),
                              !.errors = c.errors, !.obs = own]

RECURSIVE SumFollowers(_)
SumFollowers(profiles) ==
  IF profiles = << >> THEN 0 ELSE Head(profiles).followers + SumFollowers(Tail(profiles))

\* GET /api/stats.  avg is avg_followers in hundredths.
get_stats(c, t, own) ==
  LET profiles == c.profiles IN
  IF profiles = << >>
  THEN [NoResp EXCEPT !.endpoint = "/api/stats", !.http = 200, !.success = "false", !.obs = own]
  ELSE LET top == sort_profiles(profiles) IN
       [NoResp EXCEPT !.endpoint = "/api/stats", !.http = 200, !.success = "true",
                      !.total = Len(profiles), !.sum = SumFollowers(profiles),
                      !.avg = (SumFollowers(profiles) * 100) \div Len(profiles),
                      !.data = SubSeq(top, 1, IF Len(top) < 5 THEN Len(top) ELSE 5),
                      !.last_update = c.last_update, !.obs = own]

\* A read request is answered.  overlap: whether the server answers while a
\* refresh runs on another thread.
CanRead(overlap) == pc = "serving" /\ (overlap \/ Idle)

\* Mutant of Read: a read that finds the cache older than the freshness window
\* empties it.
Read_expiring(r) ==
  /\ resp' = r
  /\ cache' = IF cache.last_update # None
                  /\ now - FromIsoFormat(cache.last_update) >= CACHE_DURATION_MINUTES
               THEN InitialCache ELSE cache
  /\ UNCHANGED << disk, now, pc, run, owner, nruns, nposts, startup >>

Read(r) ==
  /\ resp' = r
  /\ UNCHANGED << cache, disk, now, pc, run, owner, nruns, nposts, startup >>

Index(overlap) == CanRead(overlap) /\ Read(index(cache, now, owner))

HealthCheck(overlap) == CanRead(overlap) /\ Read(health_check(cache, now, owner))

GetProfiles(overlap, V, M) ==
  /\ CanRead(overlap)
  /\ \E v \in V, m \in M : Read(get_profiles(cache, now, owner, v, m))

GetStats(overlap) == CanRead(overlap) /\ Read(get_stats(cache, now, owner))

\* POST /api/refresh arrives on thread t: refresh_profiles calls update_cache_data.
RefreshProfiles(t) ==
  /\ pc = "serving"
  /\ run[t].phase = "idle"
  /\ cache.fetch_count < MaxFetchCount
  /\ StartRun(t)
  /\ nposts' = nposts + 1
  /\ resp' = NoResp
  /\ UNCHANGED << cache, disk, now, pc, owner, startup >>

\* What refresh_profiles answers once update_cache_data returned (profiles, errors).
refresh_response(c, profiles, errors, own) ==
  [NoResp EXCEPT !.endpoint = "/api/refresh", !.http = 200, !.success = "true",
                 !.data = profiles, !.last_update = c.last_update, !.errors = errors,
                 !.total = Len(profiles), !.failed = Len(errors),
                 !.requested = Len(USERNAMES), !.obs = own]

\* update_cache_data returns (profiles, errors): to the main program at
\* startup, which goes on to app.run, or to refresh_profiles, which answers.
Return(t) ==
  /\ run[t].phase = "return"
  /\ run' = [run EXCEPT ![t] = IdleRun]
  /\ IF pc = "startup"
     THEN pc' = "serving" /\ resp' = NoResp
     ELSE pc' = pc /\ resp' = refresh_response(cache, run[t].profiles, run[t].errors, owner)
  /\ UNCHANGED << cache, disk, now, owner, nruns, nposts, startup >>

\* ------------------------------------------------------- main program ----

\* Mutant of use_cached: the snapshot is never used.
use_cached_never(cached_data) == FALSE

\* if cached_data:
use_cached(cached_data) == cached_data # None

\* The __main__ block up to app.run: load the snapshot and use it, or run
\* update_cache_data on the main thread.
Main ==
  /\ pc = "boot"
  /\ LET cached_data == load_cache(disk, now) IN
       IF use_cached(cached_data)
       THEN /\ cache' = cache_update(cache, cached_data[1])
            /\ pc' = "serving"
            /\ startup' = "hit"
            /\ UNCHANGED << run, nruns >>
       ELSE /\ StartRun(1)
            /\ pc' = "startup"
            /\ startup' = "miss"
            /\ cache' = cache
  /\ resp' = NoResp
  /\ UNCHANGED << disk, now, owner, nposts >>

\* The process is killed at any point and started again: memory is lost, the
\* file stays as it is.
Restart ==
  /\ pc # "boot"
  /\ cache' = InitialCache
  /\ pc' = "boot"
  /\ run' = [t \in Threads |-> IdleRun]
  /\ resp' = NoResp
  /\ owner' = NoOwner
  /\ nruns' = 0
  /\ nposts' = 0
  /\ startup' = "none"
  /\ UNCHANGED << disk, now >>

\* Time passes.
TickSteps == {29, 30, 31}

Tick ==
  /\ \E d \in TickSteps : now + d <= MaxTime /\ now' = now + d
  /\ resp' = NoResp
  /\ UNCHANGED << cache, disk, pc, run, owner, nruns, nposts, startup >>

\* ----------------------------------------------------- specifications ----

\* One step of the refresh job on thread t, the source answering from S.
RunStep(t, S) ==
  \/ \E o \in S : FetchStep(t, o)
  \/ UpdateCache(t)
  \/ SaveOpen(t)
  \/ SaveDump(t)
  \/ Return(t)

\* The program from its start to the answers of the read endpoints, with every
\* answer of the source: the startup run or the loaded snapshot, no refresh
\* request, the clock standing still.
NextStartup ==
  \/ Main
  \/ Restart
  \/ RunStep(1, SourceOutcomes)
  \/ Index(FALSE)
  \/ HealthCheck(FALSE)
  \/ GetProfiles(FALSE, VerifiedArgs, MinFollowersArgs)
  \/ GetStats(FALSE)

SpecStartup == Init /\ [][NextStartup]_vars

\* The whole life of the process, requests served one at a time.
Next ==
  \/ Main
  \/ Restart
  \/ Tick
  \/ RefreshProfiles(1)
  \/ RunStep(1, CoarseOutcomes)
  \/ Index(FALSE)
  \/ HealthCheck(FALSE)
  \/ GetProfiles(FALSE, CoarseVerifiedArgs, CoarseMinFollowersArgs)
  \/ GetStats(FALSE)

Spec == Init /\ [][Next]_vars

\* One step of the refresh job on thread t, the statements of lines 199-204
\* taken one by one.
ThreadStep(t, S) ==
  \/ \E o \in S : FetchStep(t, o)
  \/ StoreProfiles(t)
  \/ StoreLastUpdate(t)
  \/ LoadCount(t)
  \/ StoreCount(t)
  \/ StoreErrors(t)
  \/ SaveOpen(t)
  \/ SaveDump(t)
  \/ Return(t)

\* The refresh job by itself, statement by statement, with every answer of the
\* source: started by the main program, the process killed and started again
\* at any point.  The job never stops for ever in the middle: its thread keeps
\* being scheduled and every call of the source comes back.
NextRun ==
  \/ Main
  \/ Restart
  \/ ThreadStep(1, SourceOutcomes)

SpecRun == Init /\ [][NextRun]_vars /\ WF_vars(ThreadStep(1, SourceOutcomes))

\* Requests are served as they come, each in its thread (Flask's threaded
\* development server).
NextThreaded ==
  \/ Main
  \/ \E t \in Threads : RefreshProfiles(t)
  \/ \E t \in Threads : ThreadStep(t, CoarseOutcomes)
  \/ Index(TRUE)
  \/ HealthCheck(TRUE)
  \/ GetProfiles(TRUE, {""}, {NoArg})
  \/ GetStats(TRUE)

SpecThreaded == Init /\ [][NextThreaded]_vars

\* ------------------------------------------------------------- claims ----

\* How many entries of the list s are about username u.
CountOf(s, u) == Cardinality({i \in 1..Len(s) : s[i].username = u})

\* Every one of the first n usernames is in exactly one of the two lists.
OnePerUsername(r, n) ==
  /\ Len(r.profiles) + Len(r.errors) = n
  /\ \A i \in 1..n : CountOf(r.profiles, USERNAMES[i]) + CountOf(r.errors, USERNAMES[i]) = 1

\* C1: whatever the source answers, fetch_profile_data returns exactly one of
\* a record and an error, and a refresh run ends with
\* len(profiles) + len(errors) = len(USERNAMES), every username in exactly
\* one of the two lists.
C1_ExactlyOne ==
  \A t \in Threads :
    LET r == run[t] IN
    /\ r.ret.done => ((r.ret.data = None) # (r.ret.error = None))
    /\ r.phase = "fetch" => OnePerUsername(r, r.idx - 1)
    /\ r.phase \notin {"idle", "fetch"} => OnePerUsername(r, Len(USERNAMES))

\* A run has ended its loop with a record and an error, the error after all
\* retries failed.
C1_Witness ==
  \E t \in Threads :
    /\ run[t].phase = "store_profiles"
    /\ Len(run[t].profiles) = 1 /\ Len(run[t].errors) = 1
    /\ run[t].last = "connection"

\* C2: fetch_profile_data calls the source at most MAX_RETRIES = 3 times for
\* one username; it calls again only after a connection error and while fewer
\* than 3 calls were made; a success on call k gives a record; a connection
\* error is returned only by the third call.
C2_BoundedRetries ==
  \A t \in Threads :
    LET r == run[t] IN
    /\ r.calls <= MAX_RETRIES
    /\ (r.calls > 0 /\ ~r.ret.done) =>
          r.last = "connection" /\ r.calls < MAX_RETRIES /\ r.retry_count = r.calls
    /\ (r.ret.done /\ r.last = "ok") =>
          /\ r.ret.data = Some(r.profiles[Len(r.profiles)])
          /\ r.ret.data[1].username = USERNAMES[r.idx - 1]
    /\ (r.ret.done /\ r.last = "connection") =>
          /\ r.calls = MAX_RETRIES
          /\ r.ret.data = None
          /\ r.ret.error = Some(ErrorMessage(USERNAMES[r.idx - 1], "connection"))

\* Two connection errors, then the third call succeeds.
C2_Witness ==
  \E t \in Threads :
    run[t].calls = MAX_RETRIES /\ run[t].last = "ok" /\ run[t].ret.data # None

\* C3: a not-found failure or any other non-connection exception ends
\* fetch_profile_data on the call where it occurs: the error is returned,
\* recorded for that username, and the next call, if any, is the first one of
\* the next username.
C3_TerminalErrors ==
  \A t \in Threads :
    LET r == run[t] IN
    r.last \in {"not_found", "other"} =>
      /\ r.ret.done
      /\ r.ret.data = None
      /\ r.ret.error = Some(ErrorMessage(USERNAMES[r.idx - 1], r.last))
      /\ r.retry_count = 0
      /\ r.errors[Len(r.errors)] =
           [username |-> USERNAMES[r.idx - 1], error |-> ErrorMessage(USERNAMES[r.idx - 1], r.last)]

\* Another exception on the second call, after one connection error.
C3_Witness ==
  \E t \in Threads : run[t].last = "other" /\ run[t].calls = 2

\* The position of username u in USERNAMES.
FetchOrder(u) == CHOOSE i \in 1..Len(USERNAMES) : USERNAMES[i] = u

\* Followers descending, equal followers in the order of USERNAMES.
SortedStable(s) ==
  \A i, j \in 1..Len(s) :
    i < j =>
      /\ s[i].followers >= s[j].followers
      /\ s[i].followers = s[j].followers => FetchOrder(s[i].username) < FetchOrder(s[j].username)

\* C4: the cache's record list is always sorted by followers descending, ties
\* in fetch order, and so are the list a refresh run returns and the list
\* GET /api/profiles returns, whatever the filters.
C4_SortedRecords ==
  /\ SortedStable(cache.profiles)
  /\ \A t \in Threads : run[t].phase = "return" => SortedStable(run[t].profiles)
  /\ resp.endpoint \in {"/api/refresh", "/api/profiles"} => SortedStable(resp.data)

\* GET /api/profiles returns two records of which the second of USERNAMES
\* comes first: the sort moved it.
C4_Witness ==
  /\ resp.endpoint = "/api/profiles"
  /\ Len(resp.data) = 2
  /\ resp.data[1].username = USERNAMES[2]

\* C5: at startup load_cache gives the snapshot when it is less than 30 minutes
\* old (the cache then takes its content) and nothing when it is more than 30
\* minutes old.
C5_FreshnessWindow ==
  [][ (pc = "boot" /\ pc' # "boot" /\ disk.state = "complete") =>
        LET age == now - FromIsoFormat(disk.data.last_update) IN
        /\ age < CACHE_DURATION_MINUTES => (startup' = "hit" /\ cache' = disk.data)
        /\ age > CACHE_DURATION_MINUTES => (startup' = "miss" /\ cache' = InitialCache)
    ]_vars

\* The server serves a snapshot it loaded when the snapshot was exactly 29
\* minutes old.
C5_Witness ==
  /\ pc = "serving" /\ startup = "hit" /\ nposts = 0
  /\ now - FromIsoFormat(cache.last_update) = 29

\* A snapshot the startup accepts: a complete file less than 30 minutes old.
ValidSnapshot ==
  /\ disk.state = "complete"
  /\ disk.data.last_update # None
  /\ now - FromIsoFormat(disk.data.last_update) < CACHE_DURATION_MINUTES

\* C6: update_cache_data is called once at startup when there is no valid
\* snapshot (absent, stale or unreadable file) and not at startup when there
\* is one (the cache is then the snapshot), and once per POST /api/refresh;
\* nothing else starts a run.
C6_RunsOncePerTrigger ==
  /\ [] /\ pc = "boot" => nruns = 0
        /\ startup = "miss" => nruns = nposts + 1
        /\ startup = "hit" => nruns = nposts
        /\ (startup = "hit" /\ nposts = 0) => cache = disk.data
  /\ [][ (pc = "boot" /\ pc' # "boot") =>
            /\ ValidSnapshot => (nruns' = 0 /\ pc' = "serving" /\ cache' = disk.data)
            /\ ~ValidSnapshot => (nruns' = 1 /\ pc' = "startup" /\ run'[1].phase = "fetch")
      ]_vars
  /\ [][ (pc # "boot" /\ pc' # "boot" /\ nruns' # nruns) =>
            (pc = "serving" /\ nruns' = nruns + 1 /\ nposts' = nposts + 1)
      ]_vars

\* A server that started from a valid snapshot has served one refresh request.
C6_Witness ==
  pc = "serving" /\ startup = "hit" /\ nposts = 1 /\ nruns = 1 /\ Idle

\* The cache fields each read endpoint puts in its answer.
Observes(endpoint) ==
  CASE endpoint = "/"             -> {"profiles", "last_update", "fetch_count"}
    [] endpoint = "/api/health"   -> {"profiles", "last_update", "errors"}
    [] endpoint = "/api/profiles" -> {"profiles", "last_update", "errors"}
    [] endpoint = "/api/stats"    -> {"profiles", "last_update"}
    [] OTHER                      -> {}

\* C7: a read endpoint never answers from a cache whose records come from one
\* refresh run while its errors, last-update timestamp or run counter come
\* from another: every cache field in one answer was written by the same run.
C7_AtomicReplace ==
  \A f, g \in Observes(resp.endpoint) : resp.obs[f] = resp.obs[g]

\* C8: when the save of a run fails, update_cache_data still returns, and the
\* cache holds this run's records, errors, timestamp and incremented counter.
C8_SaveFailureKeepsState ==
  \A t \in Threads :
    (run[t].phase = "return" /\ run[t].saved = "failed") =>
      /\ cache.profiles = run[t].profiles
      /\ cache.errors = run[t].errors
      /\ cache.last_update = run[t].stamp
      /\ cache.fetch_count = run[t].count + 1

\* C9: at every step of a run, those of writing the file included, the disk
\* holds a complete snapshot (or none was ever written), never an empty or
\* partial one.
C9_SnapshotIntact == disk.state # "truncated"

\* C10: every API call is answered with success; the only answer that is not a
\* success is that of GET /api/stats on an empty cache (success: false).
C10_AlwaysSuccess ==
  resp.endpoint # "none" =>
    /\ resp.http = 200
    /\ resp.success = "false" => (resp.endpoint = "/api/stats" /\ cache.profiles = << >>)

ReadEndpoints == {"/", "/api/health", "/api/profiles", "/api/stats"}

\* C11: a request to a read endpoint changes neither the cache nor the file
\* and starts no run, whatever the age of the cache; its answer is taken from
\* the cache as it is, also after the freshness window has passed.
C11_ReadsChangeNothing ==
  [][ resp'.endpoint \in ReadEndpoints =>
        /\ cache' = cache
        /\ disk' = disk
        /\ run' = run /\ nruns' = nruns /\ pc' = pc
        /\ resp'.endpoint \in {"/", "/api/health"} =>
              (resp'.total = Len(cache.profiles) /\ resp'.last_update = cache.last_update)
        /\ (resp'.endpoint = "/api/profiles" /\ resp'.http = 200) =>
              /\ resp'.last_update = cache.last_update
              /\ (resp'.verified = "" /\ resp'.min_followers = NoArg) =>
                    resp'.data = cache.profiles
        /\ (resp'.endpoint = "/api/stats" /\ cache.profiles # << >>) =>
              (resp'.total = Len(cache.profiles) /\ resp'.last_update = cache.last_update)
    ]_vars

\* GET /api/profiles is answered with the records of a cache more than 30
\* minutes old, and the cache is still what it was.
C11_Witness ==
  /\ resp.endpoint = "/api/profiles" /\ resp.http = 200
  /\ resp.age # None /\ resp.age[1] > CACHE_DURATION_MINUTES
  /\ resp.data # << >> /\ resp.data = cache.profiles
  /\ Idle

\* The cached records a request asks for: at least n followers, and verified
\* when verified_only.
Wanted(profiles, verified_only, n) ==
  LET Keep(p) == (verified_only => p.isVerified) /\ p.followers >= n
  IN  SelectSeq(profiles, Keep)

\* C12: GET /api/profiles with min_followers = N > 0 answers exactly the cached
\* records with followers >= N, and of those only the verified ones when
\* verified=true is given; total is the length of the list answered; without
\* any filter the answer is every cached record.
C12_FilterExact ==
  (resp.endpoint = "/api/profiles" /\ resp.http = 200) =>
    LET N == IF resp.min_followers.given THEN DecimalValue(resp.min_followers.text) ELSE 0
        verified_only == resp.verified \in {"true", "True"}
    IN  /\ resp.total = Len(resp.data)
        /\ N > 0 => resp.data = Wanted(cache.profiles, verified_only, N)
        /\ (resp.verified = "" /\ resp.min_followers = NoArg) => resp.data = cache.profiles

\* Of two cached records, min_followers=1 with verified=true keeps one.
C12_Witness ==
  /\ resp.endpoint = "/api/profiles" /\ resp.http = 200
  /\ resp.min_followers = [given |-> TRUE, text |-> << "1" >>]
  /\ resp.verified = "true"
  /\ Len(cache.profiles) = 2
  /\ Len(resp.data) = 1

\* The usernames the two lists of run r are about.
Processed(r) ==
  {r.profiles[i].username : i \in 1..Len(r.profiles)}
    \cup {r.errors[i].username : i \in 1..Len(r.errors)}

\* The entries of list s are in the order of USERNAMES.
InListOrder(s) ==
  \A i, j \in 1..Len(s) : i < j => FetchOrder(s[i].username) < FetchOrder(s[j].username)

\* The source calls a run in its loop can still make, at most.
CallsLeft(r) ==
  IF r.phase = "fetch"
  THEN (Len(USERNAMES) - r.idx + 1) * MAX_RETRIES - r.retry_count
  ELSE 0

\* C13: whatever the source raises, a run goes through USERNAMES in order,
\* one username after the other, none left out; it makes at most 3 calls for
\* a username, every call bringing the end of the loop nearer; and a run that
\* has started gets to the cache update and to save_cache (unless the process
\* is killed).
C13_RunCompletes ==
  /\ [] \A t \in Threads :
          LET r == run[t] IN
          /\ r.phase = "fetch" =>
                /\ r.idx \in 1..Len(USERNAMES)
                /\ r.calls <= MAX_RETRIES
                /\ Processed(r) = {USERNAMES[i] : i \in 1..(r.idx - 1)}
                /\ InListOrder(r.profiles) /\ InListOrder(r.errors)
          /\ r.phase = "store_profiles" =>
                /\ r.idx = Len(USERNAMES) + 1
                /\ Processed(r) = {USERNAMES[i] : i \in 1..Len(USERNAMES)}
                /\ InListOrder(r.profiles) /\ InListOrder(r.errors)
  /\ [][ \A t \in Threads :
            (run[t].phase = "fetch" /\ run'[t] # run[t] /\ pc' # "boot") =>
              /\ CallsLeft(run'[t]) < CallsLeft(run[t])
              /\ run'[t].phase \in {"fetch", "store_profiles"}
       ]_vars
  /\ \A t \in Threads :
        (run[t].phase = "fetch") ~> (run[t].phase = "open" \/ pc = "boot")

\* A run in which every username failed, the last one after three connection
\* errors, has updated the cache and is about to save it.
C13_Witness ==
  \E t \in Threads :
    /\ run[t].phase = "open"
    /\ Len(run[t].errors) = Len(USERNAMES)
    /\ run[t].errors[Len(USERNAMES)].error = ErrorMessage(USERNAMES[Len(USERNAMES)], "connection")
    /\ cache.errors = run[t].errors
    /\ cache.profiles = << >>

\* C14: when a run returns, the cache's records are the records of that run
\* and its errors the errors of that run, both written by it and nothing else
\* in them, also when the run has no record at all.
C14_WholesaleReplace ==
  \A t \in Threads :
    run[t].phase = "return" =>
      /\ cache.profiles = run[t].profiles /\ owner.profiles = run[t].id
      /\ cache.errors = run[t].errors /\ owner.errors = run[t].id

\* A run has passed cache['fetch_count'] += 1 in this step.
Incremented(t) ==
  /\ run[t].phase \in {"store_profiles", "store_count"}
  /\ run'[t].phase \in {"store_errors", "open"}

\* C15: while the server serves, fetch_count changes only where a run passes
\* its increment, and then by exactly 1: it is its value when serving began
\* plus the number of runs that have passed the increment since, however the
\* requests interleave.
C15_CountsEveryRun ==
  [][ (pc = "serving" /\ pc' = "serving") =>
        cache'.fetch_count =
          cache.fetch_count + Cardinality({t \in Threads : Incremented(t)})
    ]_vars

\* The most a run may sleep for one username, as the claim counts it.
MaxSleepPerUsername == RATE_LIMIT_SLEEP + MAX_RETRIES * RETRY_DELAY

\* The most a run does sleep for one username: three attempts, two backoffs.
WorstSleepPerUsername == MAX_RETRIES * RATE_LIMIT_SLEEP + (MAX_RETRIES - 1) * RETRY_DELAY

\* C16: whatever the source raises, the seconds a run has slept are at most
\* 17 for each username it has come to, so at most Len(USERNAMES) * 17 when its
\* loop ends.
C16_SleepBound ==
  \A t \in Threads :
    LET r == run[t] IN
    /\ r.phase = "fetch" => r.slept <= r.idx * MaxSleepPerUsername
    /\ r.phase = "store_profiles" => r.slept <= Len(USERNAMES) * MaxSleepPerUsername

\* The loop has ended after three connection errors for every username: the
\* run slept 16 seconds for each.
C16_Witness ==
  \E t \in Threads :
    /\ run[t].phase = "store_profiles"
    /\ run[t].slept = Len(USERNAMES) * WorstSleepPerUsername
    /\ Len(run[t].errors) = Len(USERNAMES)

C18_DiskCountNeverDecreases ==
  \A t \in Threads :
    (run[t].phase = "open" /\ disk.state = "complete") =>
      cache.fetch_count >= disk.data.fetch_count

\* C19: while the server serves, cache['last_update'] is set, and the
\* cache_age_minutes of GET /api/health and GET /api/profiles is a number.
C19_LastUpdateSet ==
  /\ pc = "serving" => cache.last_update # None
  /\ (resp.endpoint \in {"/api/health", "/api/profiles"} /\ resp.http = 200) =>
        (resp.last_update # None /\ resp.age # None)

\* GET /api/health on a server whose only run found no profile at all: no
\* record cached, and an age.
C19_Witness ==
  /\ pc = "serving" /\ startup = "miss" /\ nposts = 0
  /\ cache.profiles = << >>
  /\ resp.endpoint = "/api/health" /\ resp.total = 0
  /\ resp.age # None

====
